---- MODULE Spec2Model ----
(***************************************************************************)
(* salesforce-core, client.rs: the OAuth2 client.  A Builder accumulates a *)
(* credential source and a flow selection, build() turns it into a         *)
(* pre-auth Client, and the asynchronous connect() resolves the            *)
(* credentials, validates them for the flow, exchanges them for a token    *)
(* and returns the authenticated Client.                                   *)
(*                                                                         *)
(* Strings the code takes apart (URLs, JSON text) are modelled by their    *)
(* structure: a URL is a sequence of lexical tokens, a JSON text is either *)
(* not JSON or an object, a function from member names to JSON values.     *)
(***************************************************************************)
EXTENDS Integers, Sequences, FiniteSets, TLC

VARIABLES
    builder,    \* Option<Builder>: the Builder the caller is configuring
    built,      \* Option<Result<Client, Error>>: what the last build() returned
    client,     \* Option<Client>: the Client value the caller holds
    fs,         \* the file system: path -> file
    calls,      \* task -> the state of the task's connect call (its future)
    serde,      \* Option: a Credentials value, its JSON text and the text parsed
    given       \* Option: the source the caller last gave the Builder, and the
                \* variant of the source it gave before that one ("" when none)

vars == <<builder, built, client, fs, calls, serde, given>>

----------------------------------------------------------------------------
(* Option<T>, Result<T, E> *)

None == <<>>
Some(x) == <<x>>
is_none(o) == o = <<>>
is_some(o) == o # <<>>
unwrap(o) == o[1]

Ok(v) == [ok |-> TRUE, val |-> v]
Err(e) == [ok |-> FALSE, err |-> e]

----------------------------------------------------------------------------
(* Constants and the error taxonomy *)

DEFAULT_AUTHORIZE_PATH == "/services/oauth2/authorize"
DEFAULT_TOKEN_PATH == "/services/oauth2/token"

ReadCredentials(path) == [kind |-> "ReadCredentials", path |-> path]
ParseCredentials == [kind |-> "ParseCredentials"]
ParseUrl == [kind |-> "ParseUrl"]
TokenExchange == [kind |-> "TokenExchange"]
MissingRequiredAttribute(attr) == [kind |-> "MissingRequiredAttribute", attr |-> attr]
InvalidCredentials(flow, message) ==
    [kind |-> "InvalidCredentials", flow |-> flow, message |-> message]

\* enum AuthFlow, by discriminant; ClientCredentials is #[default]
ClientCredentials == 0
UsernamePassword == 1
AuthFlow == {ClientCredentials, UsernamePassword}
AuthFlowDefault == ClientCredentials

\* format!("{:?}", auth_flow): the derived Debug name of the variant
DebugName(auth_flow) ==
    IF auth_flow = ClientCredentials THEN "ClientCredentials" ELSE "UsernamePassword"

----------------------------------------------------------------------------
(* Input values *)

\* A URL string as its lexical tokens.
UrlA == <<"https", "://", "a.my.salesforce.com">>
UrlB == <<"https", "://", "b.my.salesforce.com">>
UrlNoScheme == <<"mydomain.salesforce.com">>

\* (client_id, instance_url, tenant_id) of the organisations used as inputs
OrgA == <<"idA", UrlA, "tenantA">>
OrgB == <<"idB", UrlB, "tenantB">>
OrgNoScheme == <<"idC", UrlNoScheme, "tenantC">>

Credentials(org, secret, user, pass) ==
    [client_id |-> org[1], client_secret |-> secret, username |-> user,
     password |-> pass, instance_url |-> org[2], tenant_id |-> org[3]]

FullA == Credentials(OrgA, Some("secret"), Some("user"), Some("pass"))
FullB == Credentials(OrgB, Some("secretB"), Some("userB"), Some("passB"))

\* struct Credentials: every presence combination of the optional fields,
\* with a valid and with a scheme-less instance URL
CredentialsSet ==
    { Credentials(org, s, u, p) :
        org \in {OrgA, OrgNoScheme}, s \in {None, Some("secret")},
        u \in {None, Some("user")}, p \in {None, Some("pass")} }
    \cup {FullB}

Paths == {"a.json", "b.json"}

\* enum CredentialsFrom
Path(p) == [tag |-> "Path", path |-> p]
Value(c) == [tag |-> "Value", creds |-> c]

----------------------------------------------------------------------------
(* JSON texts and the file system *)

JStr(s) == [t |-> "str", str |-> s]
JNull == [t |-> "null"]

\* a text that is not JSON, and a JSON object
NotJson == [json |-> FALSE]
Object(obj) == [json |-> TRUE, obj |-> obj]

\* Fault: skip_serializing_if is missing, None is written as null
to_string_nulls(c) ==
    LET optional == { k \in {"client_secret", "username", "password"} : is_some(c[k]) }
        keys == {"client_id", "instance_url", "tenant_id", "client_secret", "username", "password"}
    IN  Object([k \in keys |->
                   IF k \in optional THEN JStr(unwrap(c[k]))
                   ELSE IF k \in {"client_secret", "username", "password"} THEN JNull
                   ELSE JStr(c[k])])

\* #[derive(Serialize)] for Credentials: the optional fields carry
\* skip_serializing_if = "Option::is_none"
to_string(c) ==
    LET optional == { k \in {"client_secret", "username", "password"} : is_some(c[k]) }
        keys == {"client_id", "instance_url", "tenant_id"} \cup optional
    IN  Object([k \in keys |-> IF k \in optional THEN JStr(unwrap(c[k])) ELSE JStr(c[k])])

\* Fault: the String fields are read with #[serde(default)], a missing one
\* is empty
from_str_defaults(text) ==
    IF ~text.json THEN Err(ParseCredentials)
    ELSE LET obj == text.obj
             string(k) == k \in DOMAIN obj /\ obj[k].t = "str"
             absent(k) == k \notin DOMAIN obj \/ obj[k].t = "null"
             option(k) == IF string(k) THEN Some(obj[k].str) ELSE None
             default(k) == IF k = "instance_url" THEN <<>> ELSE ""
             required(k) == IF string(k) THEN obj[k].str ELSE default(k)
         IN  IF /\ \A k \in {"client_id", "instance_url", "tenant_id"} :
                      string(k) \/ k \notin DOMAIN obj
                /\ \A k \in {"client_secret", "username", "password"} : string(k) \/ absent(k)
             THEN Ok([client_id |-> required("client_id"),
                      client_secret |-> option("client_secret"),
                      username |-> option("username"),
                      password |-> option("password"),
                      instance_url |-> required("instance_url"),
                      tenant_id |-> required("tenant_id")])
             ELSE Err(ParseCredentials)

\* #[derive(Deserialize)] for Credentials: the three String fields are
\* required, an Option field is None when the member is missing or null
from_str(text) ==
    IF ~text.json THEN Err(ParseCredentials)
    ELSE LET obj == text.obj
             string(k) == k \in DOMAIN obj /\ obj[k].t = "str"
             absent(k) == k \notin DOMAIN obj \/ obj[k].t = "null"
             option(k) == IF string(k) THEN Some(obj[k].str) ELSE None
         IN  IF /\ \A k \in {"client_id", "instance_url", "tenant_id"} : string(k)
                /\ \A k \in {"client_secret", "username", "password"} : string(k) \/ absent(k)
             THEN Ok([client_id |-> obj["client_id"].str,
                      client_secret |-> option("client_secret"),
                      username |-> option("username"),
                      password |-> option("password"),
                      instance_url |-> obj["instance_url"].str,
                      tenant_id |-> obj["tenant_id"].str])
             ELSE Err(ParseCredentials)

NoFile == [exists |-> FALSE]
File(text) == [exists |-> TRUE, text |-> text]

\* std::fs::read_to_string
read_to_string(files, path) ==
    IF files[path].exists THEN Ok(files[path].text) ELSE Err("io::Error")

\* the documents written to the credential files
OnlyClientId == Object([k \in {"client_id"} |-> JStr("client_id")])
NullSecret ==
    Object([k \in {"client_id", "client_secret", "instance_url", "tenant_id"} |->
              CASE k = "client_id" -> JStr("idB")
                [] k = "client_secret" -> JNull
                [] k = "instance_url" -> JStr(UrlB)
                [] k = "tenant_id" -> JStr("tenantB")])
FileTexts ==
    {NotJson, OnlyClientId, NullSecret} \cup
    { to_string(c) : c \in
        { FullA, FullB,
          Credentials(OrgA, Some("secret"), None, None),
          Credentials(OrgA, None, Some("user"), Some("pass")),
          Credentials(OrgNoScheme, Some("secret"), Some("user"), Some("pass")) } }

\* the members of the Credentials schema
Keys == {"client_id", "client_secret", "username", "password", "instance_url", "tenant_id"}

\* a JSON object over the members of the schema: the members in present,
\* those in nulls being null and the others strings
Document(present, nulls, instance_url) ==
    Object([k \in present |->
               IF k \in nulls THEN JNull
               ELSE IF k = "instance_url" THEN JStr(instance_url) ELSE JStr(k)])

\* every such object, each member a string, null or missing, and a text
\* that is not JSON
Documents ==
    {NotJson} \cup
    { Document(present, nulls, instance_url) :
        present \in SUBSET Keys, nulls \in SUBSET Keys, instance_url \in {UrlA, UrlNoScheme} }

----------------------------------------------------------------------------
(* URLs *)

Schemes == {"https", "http"}

\* Fault: a relative reference is accepted as a URL
UrlParse_lenient(s) ==
    IF Len(s) >= 1 THEN Ok(s) ELSE Err(ParseUrl)

\* url::Url::parse of an absolute URL: a scheme, "://", a host
UrlParse(s) ==
    IF Len(s) >= 3 /\ s[1] \in Schemes /\ s[2] = "://" THEN Ok(s) ELSE Err(ParseUrl)

\* format!("{}{}", instance_url, path)
format(instance_url, path) == instance_url \o <<path>>

----------------------------------------------------------------------------
(* Builder *)

\* Builder::new(), Builder::default()
BuilderNew == [credentials_from |-> None, auth_flow |-> None]

\* Fault: a source that is already set is kept
credentials_path_keeps_first(b, path) ==
    IF is_some(b.credentials_from) THEN b
    ELSE [b EXCEPT !.credentials_from = Some(Path(path))]

credentials_path(b, path) == [b EXCEPT !.credentials_from = Some(Path(path))]

credentials(b, creds) == [b EXCEPT !.credentials_from = Some(Value(creds))]

auth_flow(b, flow) == [b EXCEPT !.auth_flow = Some(flow)]

\* Fault: the flow the caller selected is dropped
unwrap_or_default_always(o) == AuthFlowDefault

\* Option::unwrap_or_default
unwrap_or_default(o) == IF is_some(o) THEN unwrap(o) ELSE AuthFlowDefault

\* Fault: the error names only one of the two configuration calls
build_names_credentials(b) ==
    IF is_none(b.credentials_from)
    THEN Err(MissingRequiredAttribute("credentials"))
    ELSE Ok([credentials_from |-> unwrap(b.credentials_from),
             auth_flow |-> unwrap_or_default(b.auth_flow),
             token_result |-> None,
             instance_url |-> None,
             tenant_id |-> None])

\* Fault: build resolves a path source eagerly, reading the file
build_eager(b) ==
    IF is_none(b.credentials_from)
    THEN Err(MissingRequiredAttribute("credentials or credentials_path"))
    ELSE IF /\ unwrap(b.credentials_from).tag = "Path"
            /\ ~read_to_string(fs, unwrap(b.credentials_from).path).ok
    THEN Err(ReadCredentials(unwrap(b.credentials_from).path))
    ELSE Ok([credentials_from |-> unwrap(b.credentials_from),
             auth_flow |-> unwrap_or_default(b.auth_flow),
             token_result |-> None,
             instance_url |-> None,
             tenant_id |-> None])

\* Builder::build
build(b) ==
    IF is_none(b.credentials_from)
    THEN Err(MissingRequiredAttribute("credentials or credentials_path"))
    ELSE Ok([credentials_from |-> unwrap(b.credentials_from),
             auth_flow |-> unwrap_or_default(b.auth_flow),
             token_result |-> None,
             instance_url |-> None,
             tenant_id |-> None])

----------------------------------------------------------------------------
(* Client: the steps of connect as functions of what they read *)

\* Fault: a file that cannot be read is taken as an empty document
resolve_unreadable_as_empty(credentials_from, files) ==
    IF credentials_from.tag = "Value" THEN Ok(credentials_from.creds)
    ELSE LET credentials_string == read_to_string(files, credentials_from.path)
         IN  IF ~credentials_string.ok
             THEN from_str(NotJson)
             ELSE from_str(credentials_string.val)

\* connect, lines 320-331: the credentials of the source
resolve(credentials_from, files) ==
    IF credentials_from.tag = "Value" THEN Ok(credentials_from.creds)
    ELSE LET credentials_string == read_to_string(files, credentials_from.path)
         IN  IF ~credentials_string.ok
             THEN Err(ReadCredentials(credentials_from.path))
             ELSE from_str(credentials_string.val)

\* Fault: the username is checked before the client secret
validate_credentials_username_first(flow, creds) ==
    LET flow_name == DebugName(flow)
    IN  IF flow = ClientCredentials
        THEN IF is_none(creds.client_secret)
             THEN Err(InvalidCredentials(flow_name, "client_secret is required"))
             ELSE Ok("()")
        ELSE IF is_none(creds.username)
             THEN Err(InvalidCredentials(flow_name, "username is required"))
             ELSE IF is_none(creds.client_secret)
             THEN Err(InvalidCredentials(flow_name, "client_secret is required"))
             ELSE IF is_none(creds.password)
             THEN Err(InvalidCredentials(flow_name, "password is required"))
             ELSE Ok("()")

\* Fault: the password check is inverted
validate_credentials_password_inverted(flow, creds) ==
    LET flow_name == DebugName(flow)
    IN  IF flow = ClientCredentials
        THEN IF is_none(creds.client_secret)
             THEN Err(InvalidCredentials(flow_name, "client_secret is required"))
             ELSE Ok("()")
        ELSE IF is_none(creds.client_secret)
             THEN Err(InvalidCredentials(flow_name, "client_secret is required"))
             ELSE IF is_none(creds.username)
             THEN Err(InvalidCredentials(flow_name, "username is required"))
             ELSE IF is_some(creds.password)
             THEN Err(InvalidCredentials(flow_name, "password is required"))
             ELSE Ok("()")

\* Fault: the validation checks the instance URL before the fields
validate_credentials_url_first(flow, creds) ==
    LET flow_name == DebugName(flow)
    IN  IF ~UrlParse(format(creds.instance_url, DEFAULT_TOKEN_PATH)).ok
        THEN Err(ParseUrl)
        ELSE IF flow = ClientCredentials
        THEN IF is_none(creds.client_secret)
             THEN Err(InvalidCredentials(flow_name, "client_secret is required"))
             ELSE Ok("()")
        ELSE IF is_none(creds.client_secret)
             THEN Err(InvalidCredentials(flow_name, "client_secret is required"))
             ELSE IF is_none(creds.username)
             THEN Err(InvalidCredentials(flow_name, "username is required"))
             ELSE IF is_none(creds.password)
             THEN Err(InvalidCredentials(flow_name, "password is required"))
             ELSE Ok("()")

\* Fault: the ClientCredentials flow is validated like the password flow
validate_credentials_one_arm(flow, creds) ==
    LET flow_name == DebugName(flow)
    IN  IF is_none(creds.client_secret)
        THEN Err(InvalidCredentials(flow_name, "client_secret is required"))
        ELSE IF is_none(creds.username)
        THEN Err(InvalidCredentials(flow_name, "username is required"))
        ELSE IF is_none(creds.password)
        THEN Err(InvalidCredentials(flow_name, "password is required"))
        ELSE Ok("()")

\* Client::validate_credentials
validate_credentials(flow, creds) ==
    LET flow_name == DebugName(flow)
    IN  IF flow = ClientCredentials
        THEN IF is_none(creds.client_secret)
             THEN Err(InvalidCredentials(flow_name, "client_secret is required"))
             ELSE Ok("()")
        ELSE IF is_none(creds.client_secret)
             THEN Err(InvalidCredentials(flow_name, "client_secret is required"))
             ELSE IF is_none(creds.username)
             THEN Err(InvalidCredentials(flow_name, "username is required"))
             ELSE IF is_none(creds.password)
             THEN Err(InvalidCredentials(flow_name, "password is required"))
             ELSE Ok("()")

\* Fault: the executor is built with the default redirect policy
http_client_build_default_policy(backend_ok) ==
    IF backend_ok THEN Ok([redirect |-> "limited"]) ELSE Err(TokenExchange)

\* reqwest::Client::builder().redirect(Policy::none()).build(); the build
\* fails when the backend cannot be initialised
http_client_build(backend_ok) ==
    IF backend_ok THEN Ok([redirect |-> "none"]) ELSE Err(TokenExchange)

\* Client::exchange_client_credentials up to the request it sends
exchange_client_credentials(creds, http_client) ==
    IF is_none(creds.client_secret)
    THEN Err(InvalidCredentials("ClientCredentials", "client_secret is required"))
    ELSE LET auth_uri == UrlParse(format(creds.instance_url, DEFAULT_AUTHORIZE_PATH))
             token_uri == UrlParse(format(creds.instance_url, DEFAULT_TOKEN_PATH))
         IN  IF ~auth_uri.ok THEN Err(auth_uri.err)
             ELSE IF ~token_uri.ok THEN Err(token_uri.err)
             ELSE Ok([grant_type |-> "client_credentials",
                      url |-> token_uri.val,
                      client_id |-> creds.client_id,
                      client_secret |-> unwrap(creds.client_secret),
                      username |-> None,
                      password |-> None,
                      redirect |-> http_client.redirect])

\* Client::exchange_password up to the request it sends
exchange_password(creds, http_client) ==
    IF is_none(creds.client_secret)
    THEN Err(InvalidCredentials("UsernamePassword", "client_secret is required"))
    ELSE IF is_none(creds.username)
    THEN Err(InvalidCredentials("UsernamePassword", "username is required"))
    ELSE IF is_none(creds.password)
    THEN Err(InvalidCredentials("UsernamePassword", "password is required"))
    ELSE LET auth_uri == UrlParse(format(creds.instance_url, DEFAULT_AUTHORIZE_PATH))
             token_uri == UrlParse(format(creds.instance_url, DEFAULT_TOKEN_PATH))
         IN  IF ~auth_uri.ok THEN Err(auth_uri.err)
             ELSE IF ~token_uri.ok THEN Err(token_uri.err)
             ELSE Ok([grant_type |-> "password",
                      url |-> token_uri.val,
                      client_id |-> creds.client_id,
                      client_secret |-> unwrap(creds.client_secret),
                      username |-> creds.username,
                      password |-> creds.password,
                      redirect |-> http_client.redirect])

\* Fault: the match arms are swapped
exchange_swapped(flow, creds, http_client) ==
    IF flow = ClientCredentials
    THEN exchange_password(creds, http_client)
    ELSE exchange_client_credentials(creds, http_client)

\* connect, lines 342-350: the exchange of the Client's flow
exchange(flow, creds, http_client) ==
    IF flow = ClientCredentials
    THEN exchange_client_credentials(creds, http_client)
    ELSE exchange_password(creds, http_client)

\* Fault: a failed exchange is reported as a URL error
token_response_parse_url(response) ==
    IF response.ok THEN Ok(response.val) ELSE Err(ParseUrl)

\* request_async(..).await.map_err(|e| Error::TokenExchange(..))
token_response(response) ==
    IF response.ok THEN Ok(response.val) ELSE Err(TokenExchange)

\* Fault: the tenant identifier is taken from the client identifier
authenticated_client_id(self, token_result, creds) ==
    [self EXCEPT !.token_result = Some(token_result),
                 !.instance_url = Some(creds.instance_url),
                 !.tenant_id = Some(creds.client_id)]

\* Fault: the tenant identifier is not set
authenticated_no_tenant(self, token_result, creds) ==
    [self EXCEPT !.token_result = Some(token_result),
                 !.instance_url = Some(creds.instance_url)]

\* Fault: the authenticated Client is assembled with the default flow
authenticated_default_flow(self, token_result, creds) ==
    [self EXCEPT !.token_result = Some(token_result),
                 !.instance_url = Some(creds.instance_url),
                 !.tenant_id = Some(creds.tenant_id),
                 !.auth_flow = AuthFlowDefault]

\* Fault: a Client that is already authenticated keeps its instance URL and
\* only the token and the tenant identifier are replaced
authenticated_keeps_instance(self, token_result, creds) ==
    [self EXCEPT !.token_result = Some(token_result),
                 !.instance_url = IF is_some(self.instance_url) THEN self.instance_url
                                  ELSE Some(creds.instance_url),
                 !.tenant_id = Some(creds.tenant_id)]

\* connect, lines 352-356: the authenticated Client
authenticated(self, token_result, creds) ==
    [self EXCEPT !.token_result = Some(token_result),
                 !.instance_url = Some(creds.instance_url),
                 !.tenant_id = Some(creds.tenant_id)]

----------------------------------------------------------------------------
(* connect as a future: each step maps the state of the call to the next *)

\* a task that is not in a connect call
Idle ==
    [pc |-> "idle", self |-> None, seen |-> None, credentials |-> None,
     http_client |-> None, request |-> None, response |-> None,
     result |-> None, log |-> <<>>]

\* `?` and `return`: the future completes with a result
complete(call, result) == [call EXCEPT !.pc = "done", !.result = Some(result)]

\* Client::connect(mut self): the future owns the Client
connect(self) == [Idle EXCEPT !.pc = "resolve", !.self = Some(self)]

\* Fault: an authenticated Client reuses the instance URL and tenant
\* identifier it holds instead of those just read
connect_resolve_reuse(call, files) ==
    LET self == unwrap(call.self)
        r == resolve(self.credentials_from, files)
        c == [call EXCEPT !.log = Append(@, "resolve"),
                          !.seen = IF self.credentials_from.tag = "Path"
                                   THEN Some(files[self.credentials_from.path])
                                   ELSE None]
    IN  IF r.ok
        THEN [c EXCEPT !.pc = "validate",
                       !.credentials =
                          IF is_some(self.instance_url)
                          THEN Some([r.val EXCEPT !.instance_url = unwrap(self.instance_url),
                                                  !.tenant_id = unwrap(self.tenant_id)])
                          ELSE Some(r.val)]
        ELSE complete(c, Err(r.err))

\* lines 320-331; seen is the file as the call read it
connect_resolve(call, files) ==
    LET self == unwrap(call.self)
        r == resolve(self.credentials_from, files)
        c == [call EXCEPT !.log = Append(@, "resolve"),
                          !.seen = IF self.credentials_from.tag = "Path"
                                   THEN Some(files[self.credentials_from.path])
                                   ELSE None]
    IN  IF r.ok THEN [c EXCEPT !.pc = "validate", !.credentials = Some(r.val)]
        ELSE complete(c, Err(r.err))

\* Fault: the result of the validation is dropped (no `?`)
connect_validate_unchecked(call) ==
    [call EXCEPT !.log = Append(@, "validate"), !.pc = "http_client"]

\* line 334
connect_validate(call) ==
    LET self == unwrap(call.self)
        r == validate_credentials(self.auth_flow, unwrap(call.credentials))
        c == [call EXCEPT !.log = Append(@, "validate")]
    IN  IF r.ok THEN [c EXCEPT !.pc = "http_client"] ELSE complete(c, Err(r.err))

\* lines 337-340
connect_http_client(call, backend_ok) ==
    LET r == http_client_build(backend_ok)
        c == [call EXCEPT !.log = Append(@, "http_client")]
    IN  IF r.ok THEN [c EXCEPT !.pc = "exchange", !.http_client = Some(r.val)]
        ELSE complete(c, Err(r.err))

\* lines 342-350, to the await: the request is sent
connect_exchange(call) ==
    LET self == unwrap(call.self)
        r == exchange(self.auth_flow, unwrap(call.credentials), unwrap(call.http_client))
        c == [call EXCEPT !.log = Append(@, "exchange")]
    IN  IF r.ok THEN [c EXCEPT !.pc = "await", !.request = Some(r.val),
                               !.log = Append(Append(call.log, "exchange"), "request")]
        ELSE complete(c, Err(r.err))

\* Fault: a failed exchange is tried once more
connect_return_retry(call) ==
    LET self == unwrap(call.self)
        r == token_response(unwrap(call.response))
    IN  IF r.ok
        THEN complete(call, Ok(authenticated(self, r.val, unwrap(call.credentials))))
        ELSE IF Len(call.log) < 6
        THEN [call EXCEPT !.response = None, !.log = Append(@, "request")]
        ELSE complete(call, Err(r.err))

\* Fault: the resolved credentials are kept in one place shared by the
\* calls, and a call assembles its Client from what is there
connect_return_shared(call) ==
    LET self == unwrap(call.self)
        r == token_response(unwrap(call.response))
        shared == IF calls[1].credentials # None THEN calls[1].credentials
                  ELSE call.credentials
    IN  IF r.ok
        THEN complete(call, Ok(authenticated(self, r.val, unwrap(shared))))
        ELSE complete(call, Err(r.err))

\* lines 342-356, from the await: the response is mapped, the three fields set
connect_return(call) ==
    LET self == unwrap(call.self)
        r == token_response(unwrap(call.response))
    IN  IF r.ok
        THEN complete(call, Ok(authenticated(self, r.val, unwrap(call.credentials))))
        ELSE complete(call, Err(r.err))

----------------------------------------------------------------------------
(* The state machine: a caller that builds a Client and awaits connect,    *)
(* the remote endpoint, and the processes that write the credential files  *)

\* the access tokens the remote endpoint issues
Tokens == {"token1", "token2"}

\* every value a Builder can take
BuilderValues ==
    [credentials_from : {None} \cup { Some(Path(p)) : p \in Paths }
                               \cup { Some(Value(c)) : c \in CredentialsSet },
     auth_flow : {None} \cup { Some(f) : f \in AuthFlow }]

Tasks == {1}

Init ==
    /\ builder = None
    /\ built = None
    /\ client = None
    /\ fs = [p \in Paths |-> NoFile]
    /\ calls = [i \in Tasks |-> Idle]
    /\ serde = None
    /\ given = None

Awaiting == \E i \in DOMAIN calls : calls[i].pc # "idle"

\* builder.build() as the caller sees it: the Builder it was called on and
\* what it returned
built_by(b) == [of |-> b, result |-> build(b)]

\* let client = Builder::new() ... .build()?;  with any configuration
BuildClient ==
    /\ ~Awaiting
    /\ \E b \in BuilderValues :
        /\ built' = Some(built_by(b))
        /\ client' = IF build(b).ok THEN Some(build(b).val) ELSE client
    /\ UNCHANGED <<builder, fs, calls, serde, given>>

\* client.connect() or client.clone().connect(): the task's call starts
Connect(i) ==
    /\ calls[i].pc = "idle"
    /\ client # None
    /\ \E clone \in BOOLEAN :
        /\ calls' = [calls EXCEPT ![i] = connect(unwrap(client))]
        /\ client' = IF clone THEN client ELSE None
    /\ built' = None
    /\ UNCHANGED <<builder, fs, serde, given>>

Resolve(i) ==
    /\ calls[i].pc = "resolve"
    /\ calls' = [calls EXCEPT ![i] = connect_resolve(calls[i], fs)]
    /\ UNCHANGED <<builder, built, client, fs, serde, given>>

Validate(i) ==
    /\ calls[i].pc = "validate"
    /\ calls' = [calls EXCEPT ![i] = connect_validate(calls[i])]
    /\ UNCHANGED <<builder, built, client, fs, serde, given>>

HttpClient(i) ==
    /\ calls[i].pc = "http_client"
    /\ \E backend_ok \in BOOLEAN :
        calls' = [calls EXCEPT ![i] = connect_http_client(calls[i], backend_ok)]
    /\ UNCHANGED <<builder, built, client, fs, serde, given>>

Exchange(i) ==
    /\ calls[i].pc = "exchange"
    /\ calls' = [calls EXCEPT ![i] = connect_exchange(calls[i])]
    /\ UNCHANGED <<builder, built, client, fs, serde, given>>

\* the remote endpoint answers the request with a token
Grant(i) ==
    /\ calls[i].pc = "await"
    /\ calls[i].response = None
    /\ \E token \in Tokens : calls' = [calls EXCEPT ![i].response = Some(Ok(token))]
    /\ UNCHANGED <<builder, built, client, fs, serde, given>>

\* the remote endpoint rejects the request, or the transport fails
Reject(i) ==
    /\ calls[i].pc = "await"
    /\ calls[i].response = None
    /\ \E cause \in {"rejected", "transport"} :
        calls' = [calls EXCEPT ![i].response = Some(Err(cause))]
    /\ UNCHANGED <<builder, built, client, fs, serde, given>>

\* the future resumes and completes
Return(i) ==
    /\ calls[i].pc = "await"
    /\ calls[i].response # None
    /\ calls' = [calls EXCEPT ![i] = connect_return(calls[i])]
    /\ UNCHANGED <<builder, built, client, fs, serde, given>>

\* the caller takes the result: it keeps the returned Client or drops it,
\* and an error is all it has of a failed call
Take(i) ==
    /\ calls[i].pc = "done"
    /\ \E keep \in BOOLEAN :
        client' = IF keep /\ unwrap(calls[i].result).ok
                  THEN Some(unwrap(calls[i].result).val) ELSE client
    /\ calls' = [calls EXCEPT ![i] = Idle]
    /\ UNCHANGED <<builder, built, fs, serde, given>>

\* another process writes a credentials file
WriteFile ==
    /\ \E p \in Paths, text \in FileTexts : fs' = [fs EXCEPT ![p] = File(text)]
    /\ UNCHANGED <<builder, built, client, calls, serde, given>>

\* another process removes a credentials file
RemoveFile ==
    /\ \E p \in Paths : fs[p].exists /\ fs' = [fs EXCEPT ![p] = NoFile]
    /\ UNCHANGED <<builder, built, client, calls, serde, given>>

Next ==
    \/ BuildClient
    \/ \E i \in DOMAIN calls : Connect(i)
    \/ \E i \in DOMAIN calls : Resolve(i)
    \/ \E i \in DOMAIN calls : Validate(i)
    \/ \E i \in DOMAIN calls : HttpClient(i)
    \/ \E i \in DOMAIN calls : Exchange(i)
    \/ \E i \in DOMAIN calls : Grant(i)
    \/ \E i \in DOMAIN calls : Reject(i)
    \/ \E i \in DOMAIN calls : Return(i)
    \/ \E i \in DOMAIN calls : Take(i)
    \/ WriteFile
    \/ RemoveFile

Spec == Init /\ [][Next]_vars

----------------------------------------------------------------------------
(* The Builder alone: the caller configures Builders call by call *)

\* the variant of the source the caller gave last, "" when it gave none
earlier == IF given = None THEN "" ELSE unwrap(given).source.tag

\* let builder = Builder::new();
NewBuilder ==
    /\ builder' = Some(BuilderNew)
    /\ given' = None
    /\ UNCHANGED <<built, client, fs, calls, serde>>

\* builder.credentials_path(path)
SetCredentialsPath ==
    /\ builder # None
    /\ \E path \in Paths :
        /\ builder' = Some(credentials_path(unwrap(builder), path))
        /\ given' = Some([source |-> Path(path), after |-> earlier])
    /\ UNCHANGED <<built, client, fs, calls, serde>>

\* builder.credentials(credentials)
SetCredentials ==
    /\ builder # None
    /\ \E c \in CredentialsSet :
        /\ builder' = Some(credentials(unwrap(builder), c))
        /\ given' = Some([source |-> Value(c), after |-> earlier])
    /\ UNCHANGED <<built, client, fs, calls, serde>>

\* builder.auth_flow(flow)
SetAuthFlow ==
    /\ builder # None
    /\ \E flow \in AuthFlow : builder' = Some(auth_flow(unwrap(builder), flow))
    /\ UNCHANGED <<built, client, fs, calls, serde, given>>

\* builder.build(): the Builder is consumed
Build ==
    /\ builder # None
    /\ built' = Some(built_by(unwrap(builder)))
    /\ client' = IF build(unwrap(builder)).ok THEN Some(build(unwrap(builder)).val)
                 ELSE client
    /\ builder' = None
    /\ UNCHANGED <<fs, calls, serde, given>>

NextBuilder ==
    \/ NewBuilder
    \/ SetCredentialsPath
    \/ SetCredentials
    \/ SetAuthFlow
    \/ Build

SpecBuilder == Init /\ [][NextBuilder]_vars

----------------------------------------------------------------------------
(* A Client of a path source and the credentials file it finds: the file   *)
(* holds any document, and the caller connects, again and again            *)

InitFile ==
    /\ builder = None
    /\ built = None
    /\ \E text \in Documents, flow \in AuthFlow :
        /\ fs = [p \in Paths |-> IF p = "a.json" THEN File(text) ELSE NoFile]
        /\ client = Some(build(auth_flow(credentials_path(BuilderNew, "a.json"), flow)).val)
    /\ calls = [i \in Tasks |-> Idle]
    /\ serde = None
    /\ given = None

NextFile ==
    \/ \E i \in DOMAIN calls : Connect(i)
    \/ \E i \in DOMAIN calls : Resolve(i)
    \/ \E i \in DOMAIN calls : Validate(i)
    \/ \E i \in DOMAIN calls : HttpClient(i)
    \/ \E i \in DOMAIN calls : Exchange(i)
    \/ \E i \in DOMAIN calls : Grant(i)
    \/ \E i \in DOMAIN calls : Reject(i)
    \/ \E i \in DOMAIN calls : Return(i)
    \/ \E i \in DOMAIN calls : Take(i)

SpecFile == InitFile /\ [][NextFile]_vars

----------------------------------------------------------------------------
(* Credentials through serde_json: a value is written as JSON and the JSON *)
(* is parsed back                                                          *)

\* the Credentials values: each optional field absent or one of two strings
SerdeCredentials ==
    { Credentials(org, secret, user, pass) :
        org \in {OrgA, OrgB, OrgNoScheme},
        secret \in {None, Some("secret"), Some("secretB")},
        user \in {None, Some("user"), Some("userB")},
        pass \in {None, Some("pass"), Some("passB")} }

\* let creds = Credentials { .. };
NewCredentials ==
    /\ serde = None
    /\ \E creds \in SerdeCredentials :
        serde' = Some([creds |-> creds, json |-> None, deserialized |-> None])
    /\ UNCHANGED <<builder, built, client, fs, calls, given>>

\* let json = serde_json::to_string(&creds).unwrap();
Serialize ==
    /\ serde # None
    /\ unwrap(serde).json = None
    /\ serde' = Some([unwrap(serde) EXCEPT !.json = Some(to_string(unwrap(serde).creds))])
    /\ UNCHANGED <<builder, built, client, fs, calls, given>>

\* let deserialized = serde_json::from_str(&json);
Deserialize ==
    /\ serde # None
    /\ unwrap(serde).json # None
    /\ unwrap(serde).deserialized = None
    /\ serde' = Some([unwrap(serde) EXCEPT
                         !.deserialized = Some(from_str(unwrap(unwrap(serde).json)))])
    /\ UNCHANGED <<builder, built, client, fs, calls, given>>

NextSerde ==
    \/ NewCredentials
    \/ Serialize
    \/ Deserialize

SpecSerde == Init /\ [][NextSerde]_vars

----------------------------------------------------------------------------
(* Two tasks, each with a Client of its own, run connect concurrently;     *)
(* their steps interleave with each other, with the remote endpoint and    *)
(* with the removal of the credentials file                                *)

ConcurrentTasks == {1, 2}

\* the Client of a source and a flow
client_of(source, flow) ==
    build([credentials_from |-> Some(source), auth_flow |-> Some(flow)]).val

\* the Clients the tasks connect
ConcurrentClients ==
    { client_of(Value(FullA), ClientCredentials),
      client_of(Value(FullB), UsernamePassword),
      client_of(Path("a.json"), UsernamePassword),
      client_of(Value(Credentials(OrgNoScheme, Some("secret"), None, None)), ClientCredentials),
      client_of(Value(Credentials(OrgA, None, Some("user"), Some("pass"))), UsernamePassword) }

InitConcurrent ==
    /\ builder = None
    /\ built = None
    /\ client = None
    /\ fs = [p \in Paths |-> IF p = "a.json" THEN File(to_string(FullA)) ELSE NoFile]
    /\ calls = [i \in ConcurrentTasks |-> Idle]
    /\ serde = None
    /\ given = None

\* tokio::spawn(client.connect()): the task owns its Client
Spawn(i) ==
    /\ calls[i].pc = "idle"
    /\ \E c \in ConcurrentClients : calls' = [calls EXCEPT ![i] = connect(c)]
    /\ UNCHANGED <<builder, built, client, fs, serde, given>>

NextConcurrent ==
    \/ \E i \in DOMAIN calls : Spawn(i)
    \/ \E i \in DOMAIN calls : Resolve(i)
    \/ \E i \in DOMAIN calls : Validate(i)
    \/ \E i \in DOMAIN calls : HttpClient(i)
    \/ \E i \in DOMAIN calls : Exchange(i)
    \/ \E i \in DOMAIN calls : Grant(i)
    \/ \E i \in DOMAIN calls : Reject(i)
    \/ \E i \in DOMAIN calls : Return(i)
    \/ RemoveFile

SpecConcurrent == InitConcurrent /\ [][NextConcurrent]_vars

----------------------------------------------------------------------------
(* Properties *)

Calls == { calls[i] : i \in DOMAIN calls }
Done(call) == call.pc = "done"
Failed(call) == call.pc = "done" /\ ~unwrap(call.result).ok
Succeeded(call) == call.pc = "done" /\ unwrap(call.result).ok
error(call) == unwrap(call.result).err
flow_of(call) == unwrap(call.self).auth_flow
source_of(call) == unwrap(call.self).credentials_from

PreAuth(c) == is_none(c.token_result) /\ is_none(c.instance_url) /\ is_none(c.tenant_id)
PostAuth(c) == is_some(c.token_result) /\ is_some(c.instance_url) /\ is_some(c.tenant_id)

\* every Client value there is: the caller's, the one build returned, the
\* one a connect call owns and the one it returned
Clients ==
    (IF client = None THEN {} ELSE {unwrap(client)})
    \cup (IF built # None /\ unwrap(built).result.ok
          THEN {unwrap(built).result.val} ELSE {})
    \cup { unwrap(call.self) : call \in { c \in Calls : c.self # None } }
    \cup { unwrap(call.result).val : call \in { c \in Calls : Succeeded(c) } }

\* C1: every Client value has token_result, instance_url and tenant_id all
\* unset or all set, after any builds and connects, failed ones included
C1_AllOrNothing == \A c \in Clients : PreAuth(c) \/ PostAuth(c)

\* the caller holds an authenticated Client and a later connect on it failed
C1_Witness ==
    /\ client # None /\ PostAuth(unwrap(client))
    /\ \E call \in Calls : Failed(call) /\ PostAuth(unwrap(call.self))

Steps == <<"resolve", "validate", "http_client", "exchange", "request">>
IsPrefix(s, t) == Len(s) <= Len(t) /\ \A k \in 1..Len(s) : s[k] = t[k]

\* a field the flow requires is absent
Lacking(flow, creds) ==
    \/ is_none(creds.client_secret)
    \/ flow = UsernamePassword /\ (is_none(creds.username) \/ is_none(creds.password))

\* C2: connect runs resolve, validate, exchange in this order and the first
\* failure ends the call with the error of that step: after a failed
\* resolution nothing is validated or sent, after a failed validation no
\* request executor is built and nothing is sent
C2_StepOrder ==
    \A call \in Calls :
        /\ IsPrefix(call.log, Steps)
        /\ call.credentials = None =>
             /\ call.log \in {<<>>, <<"resolve">>}
             /\ call.http_client = None /\ call.request = None
        /\ call.credentials # None /\ Lacking(flow_of(call), unwrap(call.credentials)) =>
             /\ call.log \in {<<"resolve">>, <<"resolve", "validate">>}
             /\ call.http_client = None /\ call.request = None
        /\ Failed(call) =>
             CASE call.log = <<"resolve">> ->
                    error(call).kind \in {"ReadCredentials", "ParseCredentials"}
               [] call.log = <<"resolve", "validate">> ->
                    error(call).kind = "InvalidCredentials"
               [] call.log = <<"resolve", "validate", "http_client">> ->
                    error(call).kind = "TokenExchange"
               [] call.log = <<"resolve", "validate", "http_client", "exchange">> ->
                    error(call).kind = "ParseUrl"
               [] call.log = Steps ->
                    error(call).kind = "TokenExchange"

\* a call that failed in validation: resolved, nothing built, nothing sent
C2_Witness ==
    \E call \in Calls :
        /\ Failed(call) /\ error(call).kind = "InvalidCredentials"
        /\ call.credentials # None /\ call.http_client = None /\ call.request = None

\* the message for the first absent field in the order secret, username, password
FirstAbsent(creds) ==
    IF is_none(creds.client_secret) THEN "client_secret is required"
    ELSE IF is_none(creds.username) THEN "username is required"
    ELSE "password is required"

\* C3: a UsernamePassword connect whose credentials lack a required field
\* fails with InvalidCredentials naming the first absent field in the order
\* client secret, username, password, for every combination of absent fields
C3_FirstAbsentField ==
    \A call \in Calls :
        /\ Done(call) /\ call.credentials # None
        /\ flow_of(call) = UsernamePassword
        /\ Lacking(UsernamePassword, unwrap(call.credentials))
        => unwrap(call.result) =
             Err(InvalidCredentials("UsernamePassword", FirstAbsent(unwrap(call.credentials))))

\* secret and username both absent: the secret is reported
C3_Witness ==
    \E call \in Calls :
        /\ Done(call) /\ call.credentials # None
        /\ flow_of(call) = UsernamePassword
        /\ is_none(unwrap(call.credentials).client_secret)
        /\ is_none(unwrap(call.credentials).username)
        /\ Failed(call) /\ error(call).message = "client_secret is required"

\* C4: a ClientCredentials connect without a client secret fails with
\* InvalidCredentials for the flow "ClientCredentials" and the message that
\* the secret is required, whatever username and password hold; with the
\* secret, validation passes even without username and password
C4_ClientCredentialsSecret ==
    \A call \in Calls :
        call.credentials # None /\ flow_of(call) = ClientCredentials =>
            LET creds == unwrap(call.credentials)
            IN  /\ Done(call) /\ is_none(creds.client_secret) =>
                     unwrap(call.result) =
                       Err(InvalidCredentials("ClientCredentials", "client_secret is required"))
                /\ is_some(creds.client_secret) =>
                     /\ Failed(call) => error(call).kind # "InvalidCredentials"
                     /\ Len(call.log) = 2 => call.pc = "http_client"

\* no secret but a username and a password: the secret is reported
C4_Witness ==
    \E call \in Calls :
        /\ Failed(call) /\ call.credentials # None
        /\ flow_of(call) = ClientCredentials
        /\ is_none(unwrap(call.credentials).client_secret)
        /\ is_some(unwrap(call.credentials).username)
        /\ is_some(unwrap(call.credentials).password)
        /\ error(call).kind = "InvalidCredentials"

\* C5: when the remote endpoint rejects the credentials it was sent, connect
\* fails with TokenExchange and with no other kind of error, under either
\* flow and with either kind of source
C5_RejectedIsTokenExchange ==
    \A call \in Calls :
        Done(call) /\ call.response # None /\ ~unwrap(call.response).ok =>
            unwrap(call.result) = Err(TokenExchange)

\* a password-flow call on a file source that the endpoint rejected
C5_Witness ==
    \E call \in Calls :
        /\ Failed(call) /\ call.response = Some(Err("rejected"))
        /\ flow_of(call) = UsernamePassword
        /\ source_of(call).tag = "Path"

\* C6: build on a Builder without a credential source fails with
\* MissingRequiredAttribute("credentials or credentials_path"), whether the
\* flow is unset, ClientCredentials or UsernamePassword
C6_BuildWithoutSource ==
    built # None /\ is_none(unwrap(built).of.credentials_from) =>
        unwrap(built).result =
            Err(MissingRequiredAttribute("credentials or credentials_path"))

\* build failed on a Builder with the flow set and no source
C6_Witness ==
    /\ built # None
    /\ is_none(unwrap(built).of.credentials_from)
    /\ unwrap(built).of.auth_flow = Some(UsernamePassword)
    /\ ~unwrap(built).result.ok

\* C7: build succeeds whenever a source was supplied, whatever the flow and
\* whatever the file or the credentials are; it reads no file and sends
\* nothing: when build has returned no call has read or sent anything, and
\* a file is read only by the resolve step of connect
C7_BuildIsLazy ==
    /\ built # None /\ is_some(unwrap(built).of.credentials_from) =>
         LET b == unwrap(built).of
             r == unwrap(built).result
         IN  /\ r.ok
             /\ r.val.credentials_from = unwrap(b.credentials_from)
             /\ r.val.auth_flow \in AuthFlow
             /\ PreAuth(r.val)
    /\ built # None => \A call \in Calls : call = Idle
    /\ \A call \in Calls : call.seen # None => Len(call.log) >= 1 /\ call.log[1] = "resolve"

\* build returned a Client for a path at which there is no file
C7_Witness ==
    /\ built # None /\ unwrap(built).result.ok
    /\ unwrap(built).result.val.credentials_from.tag = "Path"
    /\ ~fs[unwrap(built).result.val.credentials_from.path].exists
    /\ client = Some(unwrap(built).result.val)

Count(log, e) == Cardinality({ k \in 1..Len(log) : log[k] = e })

\* the credentials a call resolved, from its source and the file it read
Resolved(call) ==
    IF source_of(call).tag = "Value" THEN Ok(source_of(call).creds)
    ELSE IF ~unwrap(call.seen).exists THEN Err(ReadCredentials(source_of(call).path))
    ELSE from_str(unwrap(call.seen).text)

\* C8: a successful connect returns a Client whose token_result is the token
\* of the call's one exchange and whose instance_url and tenant_id are those
\* of the credentials resolved in the same call; nothing is returned before
C8_AssembledFromThisCall ==
    \A call \in Calls :
        /\ Succeeded(call) =>
             LET c == unwrap(call.result).val
                 creds == unwrap(call.credentials)
             IN  /\ Count(call.log, "request") = 1
                 /\ c.token_result = Some(unwrap(call.response).val)
                 /\ c.instance_url = Some(creds.instance_url)
                 /\ c.tenant_id = Some(creds.tenant_id)
                 /\ Resolved(call) = Ok(creds)
                 /\ c.credentials_from = source_of(call)
                 /\ c.auth_flow = flow_of(call)
        /\ ~Done(call) => call.result = None

\* a connect on a file source succeeded
C8_Witness ==
    \E call \in Calls :
        /\ Succeeded(call)
        /\ source_of(call).tag = "Path"
        /\ unwrap(call.result).val.tenant_id = Some("tenantB")

\* C9: a connect call sends the token request at most once, and once the
\* exchange has failed the call sends nothing more and ends with that failure
C9_NoRetry ==
    \A call \in Calls :
        /\ Count(call.log, "request") <= 1
        /\ call.request # None <=> Count(call.log, "request") = 1
        /\ call.response # None /\ ~unwrap(call.response).ok =>
             /\ call.pc \in {"await", "done"}
             /\ Done(call) => unwrap(call.result) = Err(TokenExchange)

\* a call whose one request failed has ended with the failure
C9_Witness ==
    \E call \in Calls :
        /\ Failed(call) /\ call.response = Some(Err("transport"))
        /\ Count(call.log, "request") = 1

\* C10: with a path source every connect reads the file anew: the resolve
\* step of a call, on a pre-auth or an authenticated Client, takes the file
\* as it is at that step and the credentials of the call are its contents
C10_NoCaching ==
    [][\A i \in DOMAIN calls :
          /\ calls[i].pc = "resolve" /\ calls'[i].pc # "resolve"
          /\ source_of(calls[i]).tag = "Path"
          => LET now == fs[source_of(calls[i]).path]
             IN  /\ calls'[i].seen = Some(now)
                 /\ IF now.exists /\ from_str(now.text).ok
                    THEN calls'[i].credentials = Some(from_str(now.text).val)
                    ELSE calls'[i].credentials = None /\ Failed(calls'[i])]_vars

\* a Client authenticated from the file connects again after the file was
\* changed, and the call has the new contents
C10_Witness ==
    \E call \in Calls :
        /\ call.credentials # None
        /\ source_of(call).tag = "Path"
        /\ PostAuth(unwrap(call.self))
        /\ unwrap(call.self).instance_url # Some(unwrap(call.credentials).instance_url)

\* C11: the request a call sends is the one of the Client's flow:
\* ClientCredentials sends a client_credentials grant with the client
\* identifier and secret, UsernamePassword a password grant with the client
\* identifier, secret, username and password, and both go to the instance
\* URL followed by /services/oauth2/token
C11_RequestMatchesFlow ==
    \A call \in Calls :
        call.request # None =>
            LET req == unwrap(call.request)
                creds == unwrap(call.credentials)
            IN  /\ req.url = creds.instance_url \o <<"/services/oauth2/token">>
                /\ req.client_id = creds.client_id
                /\ Some(req.client_secret) = creds.client_secret
                /\ IF flow_of(call) = ClientCredentials
                   THEN /\ req.grant_type = "client_credentials"
                        /\ req.username = None /\ req.password = None
                   ELSE /\ req.grant_type = "password"
                        /\ req.username = creds.username /\ is_some(req.username)
                        /\ req.password = creds.password /\ is_some(req.password)

\* a ClientCredentials call sent its request with credentials that also
\* hold a username and a password
C11_Witness ==
    \E call \in Calls :
        /\ call.request # None
        /\ flow_of(call) = ClientCredentials
        /\ is_some(unwrap(call.credentials).username)
        /\ unwrap(call.request).grant_type = "client_credentials"

\* the credentials a call holds have an instance URL without a scheme and
\* every field its flow requires
NoSchemeComplete(call) ==
    /\ call.credentials # None
    /\ unwrap(call.credentials).instance_url = UrlNoScheme
    /\ ~Lacking(flow_of(call), unwrap(call.credentials))

C14_UnreadableFile ==
    \A call \in Calls :
        call.seen = Some(NoFile) =>
            /\ Failed(call)
            /\ source_of(call).tag = "Path"
            /\ error(call) = ReadCredentials(source_of(call).path)
            /\ call.log = <<"resolve">>
            /\ call.credentials = None
            /\ call.http_client = None
            /\ call.request = None

\* a UsernamePassword call on a missing b.json failed with ReadCredentials
C14_Witness ==
    \E call \in Calls :
        /\ call.seen = Some(NoFile)
        /\ flow_of(call) = UsernamePassword
        /\ source_of(call) = Path("b.json")
        /\ Failed(call) /\ error(call).kind = "ReadCredentials"

\* the call runs the UsernamePassword flow on credentials that hold a client
\* secret, a username and a password
PasswordComplete(call) ==
    /\ call.credentials # None
    /\ flow_of(call) = UsernamePassword
    /\ is_some(unwrap(call.credentials).client_secret)
    /\ is_some(unwrap(call.credentials).username)
    /\ is_some(unwrap(call.credentials).password)

\* C15: a UsernamePassword connect whose credentials hold the client
\* identifier, client secret, username and password passes validation and
\* never returns InvalidCredentials, whatever the exchange does
C15_CompletePasswordCredentials ==
    \A call \in Calls :
        PasswordComplete(call) =>
            /\ Failed(call) => error(call).kind # "InvalidCredentials"
            /\ Len(call.log) = 2 => call.pc = "http_client"

\* such a call passed validation, sent its request and failed with
\* TokenExchange
C15_Witness ==
    \E call \in Calls :
        /\ PasswordComplete(call)
        /\ Failed(call) /\ error(call) = TokenExchange
        /\ call.request # None

\* C16: the flow of a built Client is ClientCredentials when auth_flow was
\* never called on the Builder and otherwise the flow passed to auth_flow,
\* and its token_result, instance_url and tenant_id are unset
C16_BuiltFlow ==
    built # None /\ unwrap(built).result.ok =>
        LET b == unwrap(built).of
            c == unwrap(built).result.val
        IN  /\ c.auth_flow = IF b.auth_flow = None THEN ClientCredentials
                             ELSE b.auth_flow[1]
            /\ c.token_result = None
            /\ c.instance_url = None
            /\ c.tenant_id = None

\* a Builder on which auth_flow(UsernamePassword) was called built a
\* UsernamePassword Client
C16_Witness ==
    /\ built # None /\ unwrap(built).result.ok
    /\ unwrap(built).of.auth_flow = Some(UsernamePassword)
    /\ unwrap(built).result.val.auth_flow = UsernamePassword

\* C17: every token request, under either flow, is sent through a request
\* executor on which redirect following is disabled, and no executor a call
\* builds follows redirects
C17_NoRedirects ==
    \A call \in Calls :
        /\ call.http_client # None => unwrap(call.http_client).redirect = "none"
        /\ call.request # None =>
              /\ call.http_client # None
              /\ unwrap(call.request).redirect = "none"

\* a UsernamePassword call sent its request through its executor
C17_Witness ==
    \E call \in Calls :
        /\ call.request # None
        /\ flow_of(call) = UsernamePassword
        /\ unwrap(call.request).redirect = "none"

\* C20: connect leaves the credential source and the flow selection alone:
\* the Client a call returns carries the credentials_from and auth_flow of
\* the Client it was called on, and a clone the caller kept is, throughout
\* the call and after its success or failure, the Client it was cloned from
C20_SourceAndFlowKept ==
    \A call \in Calls :
        /\ Succeeded(call) =>
              /\ unwrap(call.result).val.credentials_from = source_of(call)
              /\ unwrap(call.result).val.auth_flow = flow_of(call)
        /\ call.pc # "idle" /\ client # None => client = call.self

\* a UsernamePassword call made on a clone succeeded and the caller still
\* holds the unauthenticated Client
C20_Witness ==
    \E call \in Calls :
        /\ Succeeded(call)
        /\ flow_of(call) = UsernamePassword
        /\ client = call.self
        /\ PreAuth(unwrap(client))

\* the file a call read is a JSON object in which a member the schema
\* requires is missing
MissingRequired(call) ==
    /\ call.seen # None
    /\ unwrap(call.seen).exists
    /\ unwrap(call.seen).text.json
    /\ \E k \in {"client_id", "instance_url", "tenant_id"} :
          k \notin DOMAIN unwrap(call.seen).text.obj

\* C12: a connect whose credentials file misses client_id, instance_url or
\* tenant_id fails with ParseCredentials, not InvalidCredentials, under
\* either flow and also when fields the flow requires are missing too;
\* nothing is validated
C12_MissingRequiredField ==
    \A call \in Calls :
        MissingRequired(call) =>
            /\ Failed(call)
            /\ error(call) = ParseCredentials
            /\ call.log = <<"resolve">>

\* a UsernamePassword call read a file that holds client_id only, so that
\* client_secret, username and password are missing as well, and failed
\* with ParseCredentials
C12_Witness ==
    \E call \in Calls :
        /\ MissingRequired(call)
        /\ DOMAIN unwrap(call.seen).text.obj = {"client_id"}
        /\ flow_of(call) = UsernamePassword
        /\ Failed(call) /\ error(call) = ParseCredentials

\* C19: a Credentials value written as JSON and parsed back is equal to the
\* original field for field, for every combination of present and absent
\* client_secret, username and password; the JSON object holds the three
\* required members and exactly the optional members that are present, each
\* as a string, so that an absent field is omitted and not null
C19_RoundTrip ==
    serde # None =>
        LET creds == unwrap(serde).creds
            json == unwrap(serde).json
            deserialized == unwrap(serde).deserialized
        IN  /\ json # None =>
                  /\ unwrap(json).json
                  /\ DOMAIN unwrap(json).obj =
                        {"client_id", "instance_url", "tenant_id"} \cup
                        { k \in {"client_secret", "username", "password"} : creds[k] # None }
                  /\ \A k \in DOMAIN unwrap(json).obj : unwrap(json).obj[k].t = "str"
            /\ deserialized # None =>
                  /\ unwrap(deserialized).ok
                  /\ \A k \in Keys : unwrap(deserialized).val[k] = creds[k]

\* credentials with a secret and a password and no username went through
\* the round trip, username missing from the JSON
C19_Witness ==
    /\ serde # None
    /\ unwrap(serde).deserialized # None
    /\ unwrap(serde).creds.client_secret # None
    /\ unwrap(serde).creds.username = None
    /\ unwrap(serde).creds.password # None
    /\ "username" \notin DOMAIN unwrap(unwrap(serde).json).obj
    /\ unwrap(unwrap(serde).deserialized).ok

\* what a connect call returns when it runs alone, from what the call itself
\* was given: its Client, the file as it read it, whether its executor was
\* built, and the answer to its request
Alone(call) ==
    LET self == unwrap(call.self)
        r == Resolved(call)
        flow == self.auth_flow
    IN  IF ~r.ok THEN Err(r.err)
        ELSE IF Lacking(flow, r.val)
        THEN Err(InvalidCredentials(
                 IF flow = ClientCredentials THEN "ClientCredentials" ELSE "UsernamePassword",
                 FirstAbsent(r.val)))
        ELSE IF call.http_client = None THEN Err(TokenExchange)
        ELSE IF r.val.instance_url = UrlNoScheme THEN Err(ParseUrl)
        ELSE IF ~unwrap(call.response).ok THEN Err(TokenExchange)
        ELSE Ok([credentials_from |-> self.credentials_from,
                 auth_flow |-> flow,
                 token_result |-> Some(unwrap(call.response).val),
                 instance_url |-> Some(r.val.instance_url),
                 tenant_id |-> Some(r.val.tenant_id)])

\* C18: two Clients connect concurrently and share nothing: under every
\* interleaving of their steps each call returns what it returns when run
\* alone (the same error, or the same token, instance URL and tenant
\* identifier), and each call that sent a request built an executor itself
C18_AsIfAlone ==
    \A i \in DOMAIN calls :
        /\ Done(calls[i]) => unwrap(calls[i].result) = Alone(calls[i])
        /\ calls[i].request # None =>
              /\ calls[i].http_client # None
              /\ Count(calls[i].log, "http_client") = 1

\* both calls are done, each authenticated for its own organisation with
\* its own token
C18_Witness ==
    /\ DOMAIN calls = ConcurrentTasks
    /\ \A i \in DOMAIN calls : Succeeded(calls[i])
    /\ unwrap(calls[1].result).val.tenant_id = Some("tenantA")
    /\ unwrap(calls[2].result).val.tenant_id = Some("tenantB")
    /\ unwrap(calls[1].result).val.token_result # unwrap(calls[2].result).val.token_result

\* the error kinds a call can end with after each number of steps
KindsAfter(steps) ==
    CASE steps = 1 -> {"ReadCredentials", "ParseCredentials"}
      [] steps = 2 -> {"InvalidCredentials"}
      [] steps = 3 -> {"TokenExchange"}
      [] steps = 4 -> {"ParseUrl"}
      [] OTHER -> {"TokenExchange"}

Reconnect(call) == call.self # None /\ PostAuth(unwrap(call.self))

\* C22: connect on an authenticated Client runs resolve, validate and the
\* exchange again as for a new Client: on success the token, the instance
\* URL and the tenant identifier are all those of the new attempt, on
\* failure the result is the error alone; and no Client anywhere holds the
\* instance URL of one organisation with the tenant identifier of another
C22_ReconnectReplacesAll ==
    /\ \A call \in Calls :
          Reconnect(call) =>
              /\ IsPrefix(call.log, Steps)
              /\ Done(call) => unwrap(call.result) = Alone(call)
              /\ Succeeded(call) =>
                    /\ call.log = Steps
                    /\ unwrap(call.result).val.token_result = Some(unwrap(call.response).val)
                    /\ unwrap(call.result).val.instance_url =
                          Some(unwrap(call.credentials).instance_url)
                    /\ unwrap(call.result).val.tenant_id =
                          Some(unwrap(call.credentials).tenant_id)
              /\ Failed(call) => DOMAIN unwrap(call.result) = {"ok", "err"}
    /\ \A c \in Clients \cup { unwrap(call.result).val : call \in { d \in Calls : Succeeded(d) } } :
          PostAuth(c) =>
              \E org \in {OrgA, OrgB} :
                  c.instance_url = Some(org[2]) /\ c.tenant_id = Some(org[3])

\* a Client authenticated for one organisation connected again after the
\* file was rewritten, and the returned Client is of the other organisation
\* with another token
C22_Witness ==
    \E call \in Calls :
        /\ Reconnect(call) /\ Succeeded(call)
        /\ unwrap(call.self).tenant_id = Some("tenantA")
        /\ unwrap(call.result).val.tenant_id = Some("tenantB")
        /\ unwrap(call.result).val.instance_url = Some(UrlB)
        /\ unwrap(call.result).val.token_result # unwrap(call.self).token_result
\* C23: the Builder holds the one source the last credentials or
\* credentials_path call gave it, of either variant, whatever auth_flow calls
\* were made before or after; build returns a Client of that source, and
\* fails when no such call was made
C23_LastSourceWins ==
    /\ builder # None =>
          unwrap(builder).credentials_from =
             IF given = None THEN None ELSE Some(unwrap(given).source)
    /\ builder = None /\ built # None =>
          /\ unwrap(built).result.ok <=> given # None
          /\ unwrap(built).result.ok =>
                unwrap(built).result.val.credentials_from = unwrap(given).source

\* a Builder was given a credentials value and then the path b.json, and
\* built a UsernamePassword Client of the path
C23_Witness ==
    /\ builder = None /\ built # None
    /\ given = Some([source |-> Path("b.json"), after |-> "Value"])
    /\ unwrap(built).result.ok
    /\ unwrap(built).result.val.credentials_from = Path("b.json")
    /\ unwrap(built).result.val.auth_flow = UsernamePassword
====
